---- MODULE Spec2Model ----
(***************************************************************************)
(* A model of geoviews' CRS-aware element types (geoviews/element/geo.py)  *)
(* and of the reprojection operations (geoviews/operation.py).             *)
(*                                                                         *)
(* A coordinate reference system is modelled by its name; NoCRS stands for *)
(* Python's None (no crs supplied, none inferred).  Every cartopy CRS      *)
(* object is truthy, None is falsy.                                        *)
(***************************************************************************)
EXTENDS Integers, Sequences, FiniteSets, TLC

VARIABLES
    el,     \* element specification: the element built last
    last,   \* element specification: the last constructor or clone call
    img,    \* raster specification: the input Image
    rast,   \* raster specification: the last raster operation and its result
    coll,   \* orchestrator specification: the (nested) collection of elements
    prj,    \* orchestrator specification: the last project call and its result
    recs,   \* records specification: the last Shape.from_records call
    pts,    \* points specification: the input Points element
    ppt     \* points specification: the last project_points call and its result

vars == <<el, last, img, rast, coll, prj, recs, pts, ppt>>

-----------------------------------------------------------------------------
(* Coordinate reference systems *)

NoCRS == "None"

PlateCarree == "PlateCarree"

GOOGLE_MERCATOR == "GOOGLE_MERCATOR"

Robinson == "Robinson"

CRSs == {PlateCarree, GOOGLE_MERCATOR, Robinson}

OptCRSs == CRSs \cup {NoCRS}

\* _Element.crs = param.ClassSelector(default=ccrs.PlateCarree(), ...)
DefaultCRS == PlateCarree

\* Python truthiness of a crs value: None is falsy, a CRS object is truthy.
Truthy(crs) == crs # NoCRS

-----------------------------------------------------------------------------
(* Element classes *)

\* The classes of geo.py that derive from _Element.
GeoTypes == {"Feature", "Tiles", "Points", "Image", "RGB", "Path",
             "Polygons", "Shape"}

\* Element classes of the base library that have no crs parameter.
PlainTypes == {"HvImage"}

NoType == "NoType"

(* Payloads.  kind is the native type of the wrapped object, crs the CRS   *)
(* that object reports (data.crs, or coord_system().as_cartopy_projection  *)
(* for a Cube; NoCRS for a Cube whose coordinate system has no such        *)
(* method and for the kinds that carry none), wrapped says the object is   *)
(* handed over inside a HoloViews Dataset.                                 *)
SelfDescribing == {"Cube", "cFeature", "cGoogleTiles"}

PlainKinds == {"BaseGeometry", "array", "table"}

Payloads ==
    [kind : SelfDescribing, crs : CRSs, wrapped : {FALSE}]
    \cup [kind : {"Cube"}, crs : OptCRSs, wrapped : {TRUE}]
    \cup [kind : {"Cube"} \cup PlainKinds, crs : {NoCRS}, wrapped : {FALSE}]
    \cup [kind : {"table"}, crs : {NoCRS}, wrapped : {TRUE}]

\* Python's None where a payload is expected.
NoData == [kind |-> "None", crs |-> NoCRS, wrapped |-> FALSE]

NoElem == [type |-> NoType, crs |-> NoCRS, data |-> NoData, gen |-> 0]

\* No operation has run yet.
NoOp == [op |-> "none", n |-> 0]

\* No Points element: no dimensions, no columns.
NoPoints == [crs |-> NoCRS, dims |-> <<>>, cols |-> <<>>, store |-> 0]

\* A collection (Overlay, NdOverlay, Layout, ...) holding nothing.
EmptyColl == [kind |-> "coll", items |-> [k \in {} |-> 0]]

\* isinstance(data, X) for the native type X a class demands.
OuterKind(p) == IF p.wrapped THEN "HvDataset" ELSE p.kind

\* crs_data = data.data if isinstance(data, HvDataset) else data; then the
\* Cube / cFeature / cGoogleTiles cases of _Element.__init__.
InferredCRS(p) ==
    IF p.kind = "Cube" THEN p.crs
    ELSE IF p.kind \in {"cFeature", "cGoogleTiles"} THEN p.crs
    ELSE NoCRS

Failure(err) == [ok |-> FALSE, err |-> err, baseBuilt |-> FALSE, el |-> NoElem]

\* super(_Element, self).__init__(data, **kwargs): the crs parameter takes the
\* keyword when there is one and its declared default otherwise.
BaseInit(type, data, kwcrs, gen) ==
    [ok |-> TRUE, err |-> "none", baseBuilt |-> TRUE,
     el |-> [type |-> type,
             crs |-> IF type \in GeoTypes \cup {"WMTS"}
                     THEN (IF kwcrs # NoCRS THEN kwcrs ELSE DefaultCRS)
                     ELSE NoCRS,
             data |-> data, gen |-> gen]]

\* A plausible slip: the inferred crs silently replaces the supplied one.
ElementInitNoCheck(type, data, supplied, gen) ==
    LET crs == InferredCRS(data)
    IN BaseInit(type, data, IF Truthy(crs) THEN crs ELSE supplied, gen)

\* _Element.__init__(self, data, **kwargs)
ElementInit(type, data, supplied, gen) ==
    LET crs == InferredCRS(data)
    IN IF Truthy(supplied) /\ Truthy(crs) /\ crs # supplied
       THEN Failure("ValueError: crs mismatch")
       ELSE BaseInit(type, data, IF Truthy(crs) THEN crs ELSE supplied, gen)

\* The isinstance test the constructors of Feature, Tiles and Shape make first.
TypeCheck(type, data) ==
    CASE type = "Feature" -> OuterKind(data) = "cFeature"
      [] type = "Tiles"   -> OuterKind(data) = "cGoogleTiles"
      [] type = "Shape"   -> OuterKind(data) = "BaseGeometry"
      [] OTHER            -> TRUE

\* cls(data, crs=supplied) for a class of GeoTypes, or of PlainTypes (which
\* has no crs and does not pass through _Element.__init__).
Construct(type, data, supplied, gen) ==
    IF type \notin GeoTypes THEN BaseInit(type, data, NoCRS, gen)
    ELSE IF ~TypeCheck(type, data) THEN Failure("TypeError")
    ELSE ElementInit(type, data, supplied, gen)

-----------------------------------------------------------------------------
(* Cloning *)

\* isinstance(new_type, _Element): new_type is a class object, and a class
\* is an instance of its metaclass, never of _Element.
IsInstanceOfElement(new_type) == FALSE

\* The overrides _Element.clone hands to the base clone.
CloneOverrides(self, new_type, ovcrs) ==
    IF ovcrs = NoCRS /\ (new_type = NoType \/ IsInstanceOfElement(new_type))
    THEN self.crs
    ELSE ovcrs

(* _Element.clone(data, shared_data, new_type, **overrides).  The base     *)
(* clone (outside this repository) builds clone_type(data, **settings)     *)
(* from the overrides; whether it also copies the instance's own parameter *)
(* values into settings is not decided by this code: baseCopies.           *)
Clone(self, data, new_type, ovcrs, baseCopies) ==
    LET ov        == CloneOverrides(self, new_type, ovcrs)
        cloneType == IF new_type = NoType THEN self.type ELSE new_type
        \* data is None and shared_data (default True): data = self.data
        newData   == IF data = NoData THEN self.data ELSE data
        kwcrs     == IF ov # NoCRS THEN ov
                     ELSE IF baseCopies /\ cloneType \in GeoTypes THEN self.crs
                     ELSE NoCRS
    IN Construct(cloneType, newData, kwcrs, self.gen)

-----------------------------------------------------------------------------
(* Tile sources *)

ItemKinds == {"WMTSTileSource", "WebMapTileService", "str", "int"}

MaxItems == 2

WMTSData == [tuple : BOOLEAN, items : UNION {[1..n -> ItemKinds] : n \in 1..MaxItems}]

\* The for loop of WMTS.__init__ over data[i..]: params['crs'] so far is
\* pcrs; self.crs, read before the base constructor ran, is the class default.
RECURSIVE WMTSLoop(_, _, _)
WMTSLoop(items, i, pcrs) ==
    IF i > Len(items) THEN [ok |-> TRUE, err |-> "none", crs |-> pcrs]
    ELSE CASE items[i] = "WMTSTileSource" ->
                WMTSLoop(items, i + 1,
                         IF pcrs = NoCRS THEN GOOGLE_MERCATOR ELSE pcrs)
           [] items[i] = "WebMapTileService" ->
                IF pcrs = NoCRS /\ ~Truthy(DefaultCRS)
                THEN [ok |-> FALSE, err |-> "Exception: must supply crs", crs |-> pcrs]
                ELSE WMTSLoop(items, i + 1, pcrs)
           [] items[i] = "str" -> WMTSLoop(items, i + 1, pcrs)
           [] OTHER -> [ok |-> FALSE, err |-> "TypeError", crs |-> pcrs]

\* WMTS.__init__(self, data, **params)
WMTSInit(data, supplied) ==
    LET loop == WMTSLoop(data.items, 1, supplied)
    IN IF ~loop.ok THEN Failure(loop.err)
       ELSE ElementInit("WMTS",
                        [kind |-> "tuple", crs |-> NoCRS, wrapped |-> FALSE],
                        loop.crs, 0)

-----------------------------------------------------------------------------
(* Raster reprojection: project_image and project_image_fast *)

\* Bounds of the raster inputs: rows, columns and x-extent of the source
\* Image, the width/height overrides, the number of bands.
MaxH == 2

MaxW == 3

MaxExtent == 3

MaxWidth == 4

MaxBands == 2

\* The 2D array an Image wraps.
ArrayData == [kind |-> "array", crs |-> NoCRS, wrapped |-> FALSE]

NoImg == [type |-> NoType, crs |-> NoCRS, data |-> NoData, gen |-> 0,
          h |-> 0, w |-> 0, x0 |-> 0, x1 |-> 0, y0 |-> 0, y1 |-> 0]

\* An Image of h rows and w columns whose x range is (x0, x1) and whose
\* y range is (y0, y1).
Images ==
    [type : {"Image"}, crs : CRSs, data : {ArrayData}, gen : {0},
     h : 1..MaxH, w : 1..MaxW, x0 : {0}, x1 : 1..MaxExtent,
     y0 : {0}, y1 : 1..MaxExtent]

\* Calls of the external primitives made by one operation.
NoCalls == [warp |-> 0, transform |-> 0, extents |-> 0]

(* project_image._process(img).  The result of the non-identity branch is  *)
(* Image(data, bounds, kdims, vdims, crs=proj); warp_array is asked for     *)
(* target_res = arr.shape and returns an array of target_res[1] rows and    *)
(* target_res[0] columns.                                                   *)
ProjectImageProcess(proj, image) ==
    IF proj = image.crs
    THEN [el |-> image, same |-> TRUE, calls |-> NoCalls]
    ELSE LET xn == image.h
             yn == image.w
             built == ElementInit("Image", ArrayData, proj, image.gen + 1)
         IN [el |-> [type |-> "Image", crs |-> built.el.crs, data |-> ArrayData,
                     gen |-> built.el.gen, h |-> yn, w |-> xn,
                     x0 |-> image.x0, x1 |-> image.x1,
                     y0 |-> image.y0, y1 |-> image.y1],
             same |-> FALSE,
             calls |-> [warp |-> 1, transform |-> 0, extents |-> 1]]

\* The ways _determine_bounds may split the x range (lo, hi) into at most n
\* contiguous bands <<xb0, xb1>>.
RECURSIVE BandSplits(_, _, _)
BandSplits(lo, hi, n) ==
    {<< <<lo, hi>> >>} \cup
    (IF n <= 1 THEN {}
     ELSE UNION {{<< <<lo, c>> >> \o rest : rest \in BandSplits(c, hi, n - 1)} :
                 c \in (lo + 1)..(hi - 1)})

\* xfraction = (xb[1]-xb[0])/(x1-x0); fraction_width = int(width*xfraction),
\* in exact arithmetic (all quantities are positive, int() truncates).
FractionWidth(width, xb, x0, x1) == (width * (xb[2] - xb[1])) \div (x1 - x0)

\* The widths of the blocks appended to resampled (and of the xs appended
\* to xvalues) by the loop over bounds['x'], from band i on.
RECURSIVE BandWidths(_, _, _, _, _)
BandWidths(bands, i, width, x0, x1) ==
    IF i > Len(bands) THEN <<>>
    ELSE <<FractionWidth(width, bands[i], x0, x1)>>
         \o BandWidths(bands, i + 1, width, x0, x1)

RECURSIVE SumSeq(_)
SumSeq(q) == IF q = <<>> THEN 0 ELSE Head(q) + SumSeq(Tail(q))

(* The source coordinate that sample j (from 0) of the n points          *)
(* np.linspace(p0, p1, n) comes back to under element.crs.transform_points, *)
(* p0 and p1 being the projections of lo and hi.  The transform is stood    *)
(* for by a linear map, so the samples are evenly spaced from lo to hi,     *)
(* both ends included (only lo when n = 1).  The coordinate is the fraction *)
(* num / den.                                                               *)
InvertedSample(lo, hi, n, j) ==
    LET den == IF n > 1 THEN n - 1 ELSE 1
    IN [num |-> lo * den + (hi - lo) * j, den |-> den]

\* Truncation towards zero of the fraction a / b, b > 0: astype(int).
TruncDiv(a, b) == IF a >= 0 THEN a \div b ELSE -((-a) \div b)

\* (((p - a0) / (a1 - a0)) * size).astype(int) for the coordinate p.
PixelIndex(p, a0, a1, size) ==
    TruncDiv((p.num - a0 * p.den) * size, p.den * (a1 - a0))

\* The indices computed for the n samples between lo and hi.
SampleIndices(lo, hi, n, a0, a1, size) ==
    {PixelIndex(InvertedSample(lo, hi, n, j), a0, a1, size) : j \in 0..(n - 1)}

(* The (icy, icx) pairs array[icys, icxs] is read at, over all bands: the   *)
(* cartesian product of the band's xs and the ys, with yb the y range.     *)
GatherIndices(bands, width, height, element) ==
    UNION {LET fraction_width == FractionWidth(width, bands[b], element.x0, element.x1)
           IN SampleIndices(element.y0, element.y1, height,
                            element.y0, element.y1, element.h)
              \X SampleIndices(bands[b][1], bands[b][2], fraction_width,
                               element.x0, element.x1, element.w) :
           b \in DOMAIN bands}

(* Lines 118-148 of project_image_fast._process(element), with the width   *)
(* and height parameters wopt, hopt (<<>> is None, <<n>> the integer n)     *)
(* and the bands _determine_bounds returned.  ncols is the number of        *)
(* columns of np.hstack(resampled[::-1]), nxs the length of                 *)
(* np.concatenate(xvalues[::-1]).                                           *)
FastResample(proj, wopt, hopt, bands, baseCopies, element) ==
    LET width  == IF wopt = <<>> THEN element.w ELSE wopt[1]
        height == IF hopt = <<>> THEN element.h ELSE hopt[1]
        widths == BandWidths(bands, 1, width, element.x0, element.x1)
        cloned == Clone([type |-> element.type, crs |-> element.crs,
                         data |-> element.data, gen |-> element.gen + 1],
                        ArrayData, "Image", proj, baseCopies)
    IN [el |-> [type |-> cloned.el.type, crs |-> cloned.el.crs,
                data |-> ArrayData, gen |-> cloned.el.gen,
                h |-> height, w |-> SumSeq(widths),
                x0 |-> element.x0, x1 |-> element.x1,
                y0 |-> element.y0, y1 |-> element.y1],
        same |-> FALSE,
        calls |-> [warp |-> 0, transform |-> Len(bands), extents |-> Len(bands)],
        width |-> width, ncols |-> SumSeq(widths), nxs |-> SumSeq(widths),
        gather |-> GatherIndices(bands, width, height, element)]

\* A plausible slip: the identity test is left out.
ProjectImageFastNoIdentity(proj, wopt, hopt, bands, baseCopies, element) ==
    FastResample(proj, wopt, hopt, bands, baseCopies, element)

\* project_image_fast._process(element)
ProjectImageFastProcess(proj, wopt, hopt, bands, baseCopies, element) ==
    IF proj = element.crs
    THEN [el |-> element, same |-> TRUE, calls |-> NoCalls,
          width |-> 0, ncols |-> 0, nxs |-> 0, gather |-> {}]
    ELSE FastResample(proj, wopt, hopt, bands, baseCopies, element)

RasterInit ==
    /\ img \in Images
    /\ rast = NoOp
    /\ el = NoElem
    /\ last = NoOp
    /\ coll = EmptyColl
    /\ prj = NoOp
    /\ recs = NoOp
    /\ pts = NoPoints
    /\ ppt = NoOp

\* project_image(img, projection=proj)
DoProjectImage ==
    /\ rast.op = "none"
    /\ \E proj \in CRSs :
        rast' = [op |-> "project_image", n |-> 0, proj |-> proj,
                 res |-> ProjectImageProcess(proj, img)]
    /\ UNCHANGED <<img, el, last, coll, prj, recs, pts, ppt>>

SizeOpts(n) == {<<>>} \cup {<<k>> : k \in 1..n}

\* project_image_fast(img, projection=proj, width=wopt, height=hopt)
DoProjectImageFast ==
    /\ rast.op = "none"
    /\ \E proj \in CRSs, wopt \in SizeOpts(MaxWidth), hopt \in SizeOpts(MaxH),
          bands \in BandSplits(img.x0, img.x1, MaxBands), baseCopies \in BOOLEAN :
        rast' = [op |-> "project_image_fast", n |-> 0, proj |-> proj,
                 wopt |-> wopt, hopt |-> hopt, bands |-> bands,
                 res |-> ProjectImageFastProcess(proj, wopt, hopt, bands,
                                                 baseCopies, img)]
    /\ UNCHANGED <<img, el, last, coll, prj, recs, pts, ppt>>

RasterNext == DoProjectImage \/ DoProjectImageFast

SpecRaster == RasterInit /\ [][RasterNext]_vars

-----------------------------------------------------------------------------
(* The vector and point operations and the orchestrator *)

\* projection = param.ClassSelector(default=ccrs.GOOGLE_MERCATOR, ...) of
\* project_shape, project_points and project_image.
ProjectionDefault == GOOGLE_MERCATOR

\* project_shape.supported_types with Image added: a plausible slip.
ProjectShapeSupportedWithImage == {"Shape", "Polygons", "Path", "Image"}

\* project_shape.supported_types
ProjectShapeSupported == {"Shape", "Polygons", "Path"}

\* project_points.supported_types
ProjectPointsSupported == {"Points"}

\* project_image.supported_types
ProjectImageSupported == {"Image"}

\* The geometry project_geometry returns.
GeomData == [kind |-> "BaseGeometry", crs |-> NoCRS, wrapped |-> FALSE]

\* The columns project_points writes the transformed coordinates into.
TableData == [kind |-> "table", crs |-> NoCRS, wrapped |-> FALSE]

\* The reprojected copy of `element`: the clone's type, crs and data, the
\* other fields of the element carried over, one more reprojection.
Reprojected(element, cloned) ==
    [f \in DOMAIN element |->
        CASE f = "type" -> cloned.el.type
          [] f = "crs"  -> cloned.el.crs
          [] f = "data" -> cloned.el.data
          [] f = "gen"  -> element.gen + 1
          [] OTHER      -> element[f]]

\* project_shape._process_element: element.clone(geom, crs=self.p.projection)
ProjectShapeElement(proj, element) ==
    Reprojected(element, Clone(element, GeomData, NoType, proj, TRUE))

\* project_points._process_element: element.clone(new_data, crs=self.p.projection, ...)
ProjectPointsElement(proj, element) ==
    Reprojected(element, Clone(element, TableData, NoType, proj, TRUE))

\* project_shape._process on a single element: element.map(..., supported_types)
ProjectShapeProcess(proj, element) ==
    IF element.type \in ProjectShapeSupported
    THEN ProjectShapeElement(proj, element)
    ELSE element

\* project_points._process on a single element
ProjectPointsProcess(proj, element) ==
    IF element.type \in ProjectPointsSupported
    THEN ProjectPointsElement(proj, element)
    ELSE element

(* The call map makes on a matching leaf: map_fn(leaf), where map_fn is     *)
(* the operation class itself, so the operation runs with the parameters    *)
(* it declares by default.                                                  *)
OperationCall(op, element) ==
    CASE op = "project_image"  -> ProjectImageProcess(ProjectionDefault, element).el
      [] op = "project_shape"  -> ProjectShapeProcess(ProjectionDefault, element)
      [] op = "project_points" -> ProjectPointsProcess(ProjectionDefault, element)

\* element.map(map_fn, specs): the same containers and keys, map_fn applied
\* to every leaf whose type is one of specs.
RECURSIVE MapNode(_, _, _)
MapNode(op, specs, node) ==
    IF node.kind = "coll"
    THEN [kind |-> "coll",
          items |-> [k \in DOMAIN node.items |-> MapNode(op, specs, node.items[k])]]
    ELSE IF node.leaf.type \in specs
         THEN [kind |-> "leaf", leaf |-> OperationCall(op, node.leaf)]
         ELSE node

\* project._process(element) of the operation project(projection=target)
ProjectProcess(target, element) ==
    LET e1 == MapNode("project_image", ProjectImageSupported, element)
        e2 == MapNode("project_shape", ProjectShapeSupported, e1)
    IN MapNode("project_points", ProjectPointsSupported, e2)

\* Bound of the collections: leaves in all.
MaxLeaves == 3

Keys == {"a", "b"}

LeafTypes == {"Image", "Shape", "Polygons", "Path", "Points", "RGB"}

LeafCRSs == {PlateCarree, GOOGLE_MERCATOR}

\* A fresh element of the given class and crs.
NewLeaf(type, crs) ==
    IF type = "Image"
    THEN [type |-> type, crs |-> crs, data |-> ArrayData, gen |-> 0,
          h |-> 1, w |-> 2, x0 |-> 0, x1 |-> 1, y0 |-> 0, y1 |-> 1]
    ELSE [type |-> type, crs |-> crs, gen |-> 0,
          data |-> CASE type = "Points" -> TableData
                     [] type = "RGB"    -> ArrayData
                     [] OTHER           -> GeomData]

RECURSIVE CountLeaves(_)
CountLeaves(node) ==
    IF node.kind = "leaf" THEN 1
    ELSE LET RECURSIVE Sum(_)
             Sum(ks) == IF ks = {} THEN 0
                        ELSE LET k == CHOOSE x \in ks : TRUE
                             IN CountLeaves(node.items[k]) + Sum(ks \ {k})
         IN Sum(DOMAIN node.items)

\* f with key k bound to v.
WithItem(f, k, v) == [x \in DOMAIN f \cup {k} |-> IF x = k THEN v ELSE f[x]]

LeafNode(e) == [kind |-> "leaf", leaf |-> e]

OrchInit ==
    /\ coll = EmptyColl
    /\ prj = NoOp
    /\ el = NoElem
    /\ last = NoOp
    /\ img = NoImg
    /\ rast = NoOp
    /\ recs = NoOp
    /\ pts = NoPoints
    /\ ppt = NoOp

\* The caller puts an element into the collection, at the top level.
AddTopLeaf ==
    /\ prj.op = "none"
    /\ CountLeaves(coll) < MaxLeaves
    /\ \E k \in Keys \ DOMAIN coll.items, t \in LeafTypes, c \in LeafCRSs :
        coll' = [coll EXCEPT !.items = WithItem(@, k, LeafNode(NewLeaf(t, c)))]
    /\ UNCHANGED <<prj, el, last, img, rast, recs, pts, ppt>>

\* The caller puts an element into a nested collection (a new one, or one
\* that is there).
AddNestedLeaf ==
    /\ prj.op = "none"
    /\ CountLeaves(coll) < MaxLeaves
    /\ \E k1 \in Keys, k2 \in Keys, t \in LeafTypes, c \in LeafCRSs :
        LET inner == IF k1 \in DOMAIN coll.items THEN coll.items[k1] ELSE EmptyColl
        IN /\ inner.kind = "coll"
           /\ k2 \notin DOMAIN inner.items
           /\ coll' = [coll EXCEPT !.items =
                         WithItem(@, k1,
                                  [inner EXCEPT !.items =
                                      WithItem(@, k2, LeafNode(NewLeaf(t, c)))])]
    /\ UNCHANGED <<prj, el, last, img, rast, recs, pts, ppt>>

\* project(coll, projection=target)
DoProject ==
    /\ prj.op = "none"
    /\ CountLeaves(coll) > 0
    /\ \E target \in CRSs :
        prj' = [op |-> "project", n |-> 0, target |-> target,
                res |-> ProjectProcess(target, coll)]
    /\ UNCHANGED <<coll, el, last, img, rast, recs, pts, ppt>>

OrchNext == AddTopLeaf \/ AddNestedLeaf \/ DoProject

SpecProject == OrchInit /\ [][OrchNext]_vars

-----------------------------------------------------------------------------
(* Shape.from_records *)

\* Bounds: records in the stream, rows in the dataset.
MaxRecords == 2

MaxRows == 2

\* Python's None and numpy's NaN among the attribute and level values.
NoneValue == "None"

NaN == "NaN"

\* rec.attributes: a mapping from some of the attribute names to values;
\* Absent marks a name the mapping does not hold.
Absent == "<absent>"

RecordAttrs == [id : {"1", "2", Absent}, name : {"x", Absent}]

\* attr in rec.attributes
HasAttr(attrs, attr) == attr \in DOMAIN attrs /\ attrs[attr] # Absent

\* The sequences over S of length at most n.
RECURSIVE SeqsUpTo(_, _)
SeqsUpTo(S, n) ==
    IF n = 0 THEN {<<>>}
    ELSE LET shorter == SeqsUpTo(S, n - 1)
         IN shorter \cup {Append(q, x) : q \in shorter, x \in S}

\* A dataset with the dimensions id (key) and pop (value); dataset=None.
DatasetDims == {"id", "pop"}

DatasetRows == [id : {"1", "2"}, pop : {"10", "20"}]

NoDataset == [isNone |-> TRUE, rows |-> <<>>]

Datasets == {NoDataset} \cup [isNone : {FALSE}, rows : SeqsUpTo(DatasetRows, MaxRows)]

(* `if dataset:` (lines 382, 389, 400) asks the dataset for its truth      *)
(* value. None is false and a dataset with rows is true. For a dataset     *)
(* without rows the answer is that of the Dataset class, which is not part *)
(* of these sources (true by Element.__nonzero__, false by __len__):       *)
(* emptyTruthy is the answer it gives.                                     *)
DatasetTruthy(dataset, emptyTruthy) ==
    ~dataset.isNone /\ (Len(dataset.rows) > 0 \/ emptyTruthy)

\* dataset.get_dimension(name): the dimension, or None
GetDimension(dataset, name) == IF name \in DatasetDims THEN name ELSE NoneValue

\* rec.attributes.get(attr, None)
AttrGet(attrs, attr) == IF HasAttr(attrs, attr) THEN attrs[attr] ELSE NoneValue

\* selection = {dim: rec.attributes.get(attr, None) for attr, dim in on.items()}
\* (on is the set of its (attr, dim) items)
Selection(on, attrs) ==
    {<<item[2], AttrGet(attrs, item[1])>> : item \in on}

\* dataset.select(**selection): the rows that agree with the selection
Select(dataset, selection) ==
    LET Agrees(r) == \A sel \in selection : r[sel[1]] = sel[2]
    IN SelectSeq(dataset.rows, Agrees)

\* Lines 404-410: the level of a record from the rows selected for it.
RecordLevel(row, vdim, drop_missing) ==
    IF Len(row) > 0 THEN [emit |-> TRUE, level |-> row[1][vdim]]
    ELSE IF drop_missing THEN [emit |-> FALSE, level |-> NoneValue]
    ELSE [emit |-> TRUE, level |-> NaN]

(* A key is a tuple whose components are record positions (integers) and   *)
(* attribute or dataset values (strings). It is written as its two parts:  *)
(* the tuple is index \o attrs, index the leading integer components.       *)
KeyTuple(index, attrs) == [index |-> index, attrs |-> attrs]

KeyLen(key) == Len(key.index) + Len(key.attrs)

\* Lines 412-422: the key of a record under the index dimensions kdims.
\* ddims is [] without a dataset, and then row is not looked at.
RECURSIVE RecordKey(_, _, _, _, _)
RecordKey(kdims, j, ddims, row, attrs) ==
    IF j > Len(kdims) THEN [key |-> <<>>, notfound |-> FALSE]
    ELSE LET rest == RecordKey(kdims, j + 1, ddims, row, attrs)
             kdim == kdims[j]
         IN IF kdim \in ddims /\ Len(row) > 0
            THEN [key |-> <<row[1][kdim]>> \o rest.key, notfound |-> rest.notfound]
            ELSE IF HasAttr(attrs, kdim)
            THEN [key |-> <<attrs[kdim]>> \o rest.key, notfound |-> rest.notfound]
            ELSE [key |-> <<NoneValue>> \o rest.key, notfound |-> TRUE]

\* A plausible slip: the synthetic key counts the emitted Shapes.
SyntheticKeyByEmitted(i, emitted) == KeyTuple(<<emitted>>, <<>>)

\* key = (i,): i is the position enumerate gives the record in the stream.
SyntheticKey(i, emitted) == KeyTuple(<<i>>, <<>>)

(* The loop over enumerate(records), from record i (counted from 1) on.    *)
(* acc.data is the list of (key, Shape) pairs so far, each with the level   *)
(* of its Shape and, for reference, the position rec of its record.         *)
RECURSIVE RecordsLoop(_, _, _, _)
RecordsLoop(call, i, ctx, acc) ==
    IF i > Len(call.records) THEN acc
    ELSE LET attrs == call.records[i]
             hasData == DatasetTruthy(call.dataset, call.emptyTruthy)
             row == IF hasData
                    THEN Select(call.dataset, Selection(call.on, attrs))
                    ELSE <<>>
             lev == IF hasData
                    THEN RecordLevel(row, ctx.vdim, call.drop_missing)
                    ELSE [emit |-> TRUE, level |-> NoneValue]
             sub == RecordKey(ctx.kdims, 1, ctx.ddims, row, attrs)
             k == IF call.index # <<>>
                  THEN [key |-> KeyTuple(<<>>, sub.key), notfound |-> sub.notfound]
                  ELSE [key |-> SyntheticKey(i - 1, Len(acc.data)),
                        notfound |-> FALSE]
         IN IF ~lev.emit
            THEN RecordsLoop(call, i + 1, ctx, acc)
            ELSE RecordsLoop(call, i + 1, ctx,
                   [data |-> Append(acc.data,
                                    [key |-> k.key, level |-> lev.level, rec |-> i - 1]),
                    notfound |-> acc.notfound \/ k.notfound])

\* data = [((i,)+subk, v) for i, (subk, v) in enumerate(data)]
PrependIndex(data) ==
    [n \in DOMAIN data |-> [data[n] EXCEPT !.key.index = <<n - 1>> \o @]]

RecordsFailure(err) ==
    [ok |-> FALSE, err |-> err, consumed |-> 0, kdims |-> <<>>, data |-> <<>>]

(* Shape.from_records(records, dataset, on, value, index, drop_missing).   *)
(* on is the set of the items of the mapping (None counts as the empty    *)
(* mapping), index a list.                                                 *)
FromRecords(call) ==
    IF ~call.dataset.isNone /\ call.on = {}
    THEN RecordsFailure("ValueError: must define attribute(s) to merge on")
    ELSE LET kdims == IF call.index # <<>> THEN call.index ELSE <<"Index">>
             hasData == DatasetTruthy(call.dataset, call.emptyTruthy)
             vdim == IF hasData THEN GetDimension(call.dataset, call.value)
                     ELSE NoneValue
         IN IF hasData /\ vdim = NoneValue
            THEN RecordsFailure("ValueError: value dimension not found")
            ELSE LET ddims == IF hasData THEN DatasetDims ELSE {}
                     out == RecordsLoop(call, 1,
                                        [kdims |-> kdims, ddims |-> ddims, vdim |-> vdim],
                                        [data |-> <<>>, notfound |-> FALSE])
                 IN [ok |-> TRUE, err |-> "none",
                     consumed |-> Len(call.records),
                     kdims |-> IF out.notfound THEN <<"Index">> \o kdims ELSE kdims,
                     data |-> IF out.notfound THEN PrependIndex(out.data)
                              ELSE out.data]

OnMappings == {{}, {<<"id", "id">>}}

ValueNames == {"pop", "zzz"}

IndexLists == {<<>>, <<"id">>, <<"name">>, <<"id", "name">>}

RecordsInit ==
    /\ recs = NoOp
    /\ el = NoElem
    /\ last = NoOp
    /\ img = NoImg
    /\ rast = NoOp
    /\ coll = EmptyColl
    /\ prj = NoOp
    /\ pts = NoPoints
    /\ ppt = NoOp

\* Shape.from_records(records, dataset, on, value, index, drop_missing)
DoFromRecords ==
    /\ recs.op = "none"
    /\ \E records \in SeqsUpTo(RecordAttrs, MaxRecords), dataset \in Datasets,
          on \in OnMappings, value \in ValueNames, index \in IndexLists,
          drop_missing \in BOOLEAN :
      \E emptyTruthy \in IF ~dataset.isNone /\ dataset.rows = <<>>
                          THEN BOOLEAN ELSE {TRUE} :
        LET call == [records |-> records, dataset |-> dataset, on |-> on,
                     value |-> value, index |-> index,
                     drop_missing |-> drop_missing,
                     emptyTruthy |-> emptyTruthy]
        IN recs' = [op |-> "from_records", n |-> 0, call |-> call,
                    res |-> FromRecords(call)]
    /\ UNCHANGED <<el, last, img, rast, coll, prj, pts, ppt>>

RecordsNext == DoFromRecords

SpecRecords == RecordsInit /\ [][RecordsNext]_vars

-----------------------------------------------------------------------------
(* project_points on the rows of a Points element *)

\* Bound: rows of the Points element.
MaxPoints == 2

\* One row of a Points element: two coordinates and a value.
PointRows == [x : 0..1, y : 0..1, v : {7, 8}]

\* The dimensions of a Points element: the two key dimensions, then the
\* value dimensions.
DimLists == {<<"Longitude", "Latitude">>, <<"Longitude", "Latitude", "v">>,
             <<"x", "y", "v">>}

\* The field of a row that dimension number j holds.
RowField(j) == CASE j = 1 -> "x" [] j = 2 -> "y" [] OTHER -> "v"

\* Field f of every row, in the order of the rows.
RECURSIVE ColumnOf(_, _, _)
ColumnOf(rows, f, i) ==
    IF i > Len(rows) THEN <<>> ELSE <<rows[i][f]>> \o ColumnOf(rows, f, i + 1)

\* Points(rows, kdims=dims[:2], vdims=dims[2:], crs=crs): the data store
\* maps each dimension name to its column; store names the store object.
PointsOf(crs, dims, rows) ==
    [crs |-> crs, dims |-> dims,
     cols |-> [d \in {dims[j] : j \in DOMAIN dims} |->
                 ColumnOf(rows, RowField(CHOOSE j \in DOMAIN dims : dims[j] = d), 1)],
     store |-> 0]

PointsElements ==
    {PointsOf(crs, dims, rows) :
        crs \in CRSs, dims \in DimLists, rows \in SeqsUpTo(PointRows, MaxPoints)}

\* element.dimension_values(i), i counted from 0
DimensionValues(element, i) == element.cols[element.dims[i + 1]]

\* A number for each CRS, to tell the coordinates of one from another's.
CRSNumber(crs) ==
    CASE crs = PlateCarree -> 0 [] crs = GOOGLE_MERCATOR -> 1 [] OTHER -> 2

(* proj.transform_points(src, x, y) for one point.  cartopy's transform is *)
(* stood for by a shift that depends on the two systems: the identity      *)
(* between a system and itself, one-to-one, different in x and in y.       *)
TransformPoint(proj, src, x, y) ==
    <<x + 10 * (CRSNumber(proj) - CRSNumber(src)),
      y + 100 * (CRSNumber(proj) - CRSNumber(src))>>

\* proj.transform_points(src, xs, ys): one output row per input point, in
\* the order of the input, from point i on.
RECURSIVE TransformPoints(_, _, _, _, _)
TransformPoints(proj, src, xs, ys, i) ==
    IF i > Len(xs) THEN <<>>
    ELSE <<TransformPoint(proj, src, xs[i], ys[i])>>
         \o TransformPoints(proj, src, xs, ys, i + 1)

\* coordinates[:, c], c counted from 0
RECURSIVE CoordColumn(_, _, _)
CoordColumn(coordinates, c, i) ==
    IF i > Len(coordinates) THEN <<>>
    ELSE <<coordinates[i][c + 1]>> \o CoordColumn(coordinates, c, i + 1)

\* element.columns(): a new mapping from each dimension name to its column.
Columns(element) ==
    [d \in {element.dims[j] : j \in DOMAIN element.dims} |-> element.cols[d]]

\* A plausible slip: the coordinates are written into the element's own
\* data store, which the clone then shares.
ProjectPointsRowsInPlace(proj, element) ==
    LET xdim == element.dims[1]
        ydim == element.dims[2]
        coordinates == TransformPoints(proj, element.crs,
                                       DimensionValues(element, 0),
                                       DimensionValues(element, 1), 1)
        new_data == [element.cols EXCEPT ![xdim] = CoordColumn(coordinates, 0, 1),
                                         ![ydim] = CoordColumn(coordinates, 1, 1)]
    IN [out  |-> [crs |-> proj, dims |-> element.dims, cols |-> new_data,
                  store |-> element.store],
        self |-> [element EXCEPT !.cols = new_data]]

(* project_points._process_element(element) with projection = proj.  out   *)
(* is the element returned, self the input element after the call.         *)
ProjectPointsRows(proj, element) ==
    LET xdim == element.dims[1]
        ydim == element.dims[2]
        xs == DimensionValues(element, 0)
        ys == DimensionValues(element, 1)
        coordinates == TransformPoints(proj, element.crs, xs, ys, 1)
        new_data == Columns(element)
        withX == [new_data EXCEPT ![xdim] = CoordColumn(coordinates, 0, 1)]
        withXY == [withX EXCEPT ![ydim] = CoordColumn(coordinates, 1, 1)]
        cloned == Clone([type |-> "Points", crs |-> element.crs,
                         data |-> TableData, gen |-> 0],
                        TableData, NoType, proj, TRUE)
    IN [out  |-> [crs |-> cloned.el.crs, dims |-> element.dims, cols |-> withXY,
                  store |-> element.store + 1],
        self |-> element]

PointsInit ==
    /\ pts \in PointsElements
    /\ ppt = NoOp
    /\ el = NoElem
    /\ last = NoOp
    /\ img = NoImg
    /\ rast = NoOp
    /\ coll = EmptyColl
    /\ prj = NoOp
    /\ recs = NoOp

\* project_points(pts, projection=proj)
DoProjectPoints ==
    /\ ppt.op = "none"
    /\ \E proj \in CRSs :
        LET run == ProjectPointsRows(proj, pts)
        IN /\ ppt' = [op |-> "project_points", n |-> 0, proj |-> proj,
                      self |-> pts, res |-> run.out]
           /\ pts' = run.self
    /\ UNCHANGED <<el, last, img, rast, coll, prj, recs>>

PointsNext == DoProjectPoints

SpecPoints == PointsInit /\ [][PointsNext]_vars

-----------------------------------------------------------------------------
(* The element specification: constructors and clone *)

\* How many clones of clones the element specification follows.
MaxClones == 1

\* The classes the element specification constructs directly.
CtorTypes == {"Feature", "Tiles", "Points", "Image", "Shape"}

\* The payloads handed to clone: None (share the data) or a new payload.
CloneData ==
    {NoData} \cup {p \in Payloads : ~p.wrapped /\ p.kind \in {"cFeature", "BaseGeometry", "array"}}

ElInit ==
    /\ el = NoElem
    /\ last = NoOp
    /\ img = NoImg
    /\ rast = NoOp
    /\ coll = EmptyColl
    /\ prj = NoOp
    /\ recs = NoOp
    /\ pts = NoPoints
    /\ ppt = NoOp

\* cls(data, crs=supplied), or cls(data) when supplied = NoCRS
DoConstruct ==
    /\ last.op = "none"
    /\ \E type \in CtorTypes, data \in Payloads, supplied \in OptCRSs :
        LET res == Construct(type, data, supplied, 0)
        IN /\ last' = [op |-> "construct", n |-> 0, type |-> type, data |-> data,
                       supplied |-> supplied, res |-> res]
           /\ el' = res.el
           /\ UNCHANGED <<img, rast, coll, prj, recs, pts, ppt>>

\* el.clone(data, new_type=new_type, crs=ovcrs)
DoClone ==
    /\ el.type \in GeoTypes
    /\ last.n < MaxClones
    /\ \E data \in CloneData,
          new_type \in {NoType} \cup CtorTypes \cup PlainTypes,
          ovcrs \in OptCRSs, baseCopies \in BOOLEAN :
        LET res == Clone(el, data, new_type, ovcrs, baseCopies)
        IN /\ last' = [op |-> "clone", n |-> last.n + 1, self |-> el, data |-> data,
                       new_type |-> new_type, ovcrs |-> ovcrs, res |-> res]
           /\ el' = res.el
           /\ UNCHANGED <<img, rast, coll, prj, recs, pts, ppt>>

\* WMTS(data, crs=supplied), or WMTS(data) when supplied = NoCRS
DoWMTS ==
    /\ last.op = "none"
    /\ \E data \in WMTSData, supplied \in OptCRSs :
        /\ data.tuple \/ Len(data.items) = 1
        /\ LET res == WMTSInit(data, supplied)
           IN /\ last' = [op |-> "wmts", n |-> 0, data |-> data, supplied |-> supplied,
                          res |-> res]
              /\ el' = res.el
              /\ UNCHANGED <<img, rast, coll, prj, recs, pts, ppt>>

ElNext == DoConstruct \/ DoClone \/ DoWMTS

SpecElement == ElInit /\ [][ElNext]_vars

-----------------------------------------------------------------------------
(* Properties of the element specification *)

CtorMismatch ==
    /\ last.data.crs # NoCRS
    /\ last.supplied # NoCRS
    /\ last.data.crs # last.supplied

\* C3: a construction whose payload encodes a CRS other than the supplied
\* one fails with the CRS-mismatch error before the base element is built;
\* every other construction succeeds with the encoded CRS if there is one,
\* else the supplied one, else the default lon/lat CRS.
C3_CtorCrs ==
    (last.op = "construct" /\ TypeCheck(last.type, last.data))
    => IF CtorMismatch
       THEN /\ ~last.res.ok
            /\ last.res.err = "ValueError: crs mismatch"
            /\ ~last.res.baseBuilt
       ELSE /\ last.res.ok
            /\ last.res.el.crs =
                 (IF last.data.crs # NoCRS THEN last.data.crs
                  ELSE IF last.supplied # NoCRS THEN last.supplied
                  ELSE PlateCarree)

\* C3 witness: a tile source in one CRS was given another crs and refused.
C3_Witness ==
    /\ last.op = "construct"
    /\ last.type = "Tiles"
    /\ last.data.kind = "cGoogleTiles"
    /\ CtorMismatch
    /\ ~last.res.ok

\* C9: a tile-source element built without an explicit crs has the Mercator
\* crs and holds no raw service handle; with a raw service handle the
\* construction fails with the missing-CRS error.
C9_WMTSDefaultCrs ==
    (last.op = "wmts" /\ last.supplied = NoCRS)
    => /\ last.res.ok => last.res.el.crs = GOOGLE_MERCATOR
       /\ (\E i \in DOMAIN last.data.items : last.data.items[i] = "WebMapTileService")
            => ~last.res.ok

-----------------------------------------------------------------------------
(* Properties of the raster specification *)

\* C5: the fast path's output has exactly the requested number of columns
\* and of x coordinates.
C5_WidthExact ==
    (rast.op = "project_image_fast" /\ ~rast.res.same)
    => /\ rast.res.ncols = rast.res.width
       /\ rast.res.nxs = rast.res.width

\* C6: both raster operations, asked for the crs the Image already has,
\* return the Image itself and call no warp, transform or extent primitive.
C6_IdentityReturnsInput ==
    (rast.op \in {"project_image", "project_image_fast"} /\ rast.proj = img.crs)
    => /\ rast.res.same
       /\ rast.res.el = img
       /\ rast.res.calls = NoCalls

\* C6 witness: the fast path ran with width and height overrides on an
\* Image already in the target crs.
C6_Witness ==
    /\ rast.op = "project_image_fast"
    /\ rast.proj = img.crs
    /\ rast.wopt # <<>>
    /\ rast.hopt # <<>>
    /\ rast.wopt[1] # img.w
    /\ rast.res.same

\* C12: every (icy, icx) pair the fast path computes from a sample that
\* comes back inside the closed source extent (as every sample of the
\* model does, the upper edges included) indexes the h x w source array:
\* 0 <= icy <= h-1 and 0 <= icx <= w-1.
C12_GatherInRange ==
    (rast.op = "project_image_fast" /\ ~rast.res.same)
    => \A pair \in rast.res.gather :
          /\ 0 <= pair[1] /\ pair[1] <= img.h - 1
          /\ 0 <= pair[2] /\ pair[2] <= img.w - 1

-----------------------------------------------------------------------------
(* Properties of the orchestrator specification *)

\* The key paths that lead to the leaves of a collection.
RECURSIVE Paths(_)
Paths(node) ==
    IF node.kind = "leaf" THEN {<<>>}
    ELSE UNION {{<<k>> \o q : q \in Paths(node.items[k])} : k \in DOMAIN node.items}

RECURSIVE LeafAt(_, _)
LeafAt(node, path) ==
    IF path = <<>> THEN node.leaf ELSE LeafAt(node.items[Head(path)], Tail(path))

\* The types some operation of the orchestrator supports.
SupportedLeafTypes == {"Image", "Shape", "Polygons", "Path", "Points"}

\* C1: after project(projection=P), every leaf of a supported type carries
\* crs = P.
C1_ProjectTargetCrs ==
    prj.op = "project"
    => \A q \in Paths(prj.res) :
          LeafAt(prj.res, q).type \in SupportedLeafTypes
          => LeafAt(prj.res, q).crs = prj.target

\* C4: the output of project has the key paths of the input; a leaf of a
\* type no operation supports is the input leaf; no leaf has been
\* reprojected more than once.
C4_StructureAndFrame ==
    prj.op = "project"
    => /\ Paths(prj.res) = Paths(coll)
       /\ \A q \in Paths(coll) :
            /\ LeafAt(prj.res, q).type = LeafAt(coll, q).type
            /\ LeafAt(coll, q).type \notin SupportedLeafTypes
                 => LeafAt(prj.res, q) = LeafAt(coll, q)
            /\ LeafAt(prj.res, q).gen <= 1

\* C4 witness: project ran over a nested collection holding an Image that
\* the image pass reprojected, a Shape and an unsupported RGB.
C4_Witness ==
    /\ prj.op = "project"
    /\ \E q \in Paths(coll) : Len(q) = 2
    /\ \E q \in Paths(coll) :
         /\ LeafAt(coll, q).type = "Image"
         /\ LeafAt(prj.res, q).gen = 1
    /\ \E q \in Paths(coll) :
         /\ LeafAt(coll, q).type = "Shape"
         /\ LeafAt(prj.res, q).gen = 1
    /\ \E q \in Paths(coll) : LeafAt(coll, q).type = "RGB"

-----------------------------------------------------------------------------
(* Properties of the records specification *)

\* Some row of the dataset agrees with the record's attributes under `on`.
RowMatches(call, r, attrs) ==
    \A item \in call.on :
        /\ attrs[item[1]] # Absent
        /\ call.dataset.rows[r][item[2]] = attrs[item[1]]

Matched(call, i) ==
    \E r \in DOMAIN call.dataset.rows : RowMatches(call, r, call.records[i])

\* The first row that agrees with record i.
FirstMatch(call, i) ==
    CHOOSE r \in DOMAIN call.dataset.rows :
        /\ RowMatches(call, r, call.records[i])
        /\ \A q \in 1..(r - 1) : ~RowMatches(call, q, call.records[i])

\* The positions (from 0) of the records a Shape was emitted for.
EmittedRecs(res) == {res.data[n].rec : n \in DOMAIN res.data}

\* C7: with a dataset, a matched record's Shape has the level of its row,
\* an unmatched record is left out under drop_missing and has level NaN
\* otherwise; the overlay holds one Shape per record kept, in order.
C7_MergeLevels ==
    (recs.op = "from_records" /\ ~recs.call.dataset.isNone /\ recs.res.ok)
    => LET call == recs.call
           res == recs.res
       IN /\ \A n \in DOMAIN res.data :
               LET i == res.data[n].rec + 1
               IN IF Matched(call, i)
                  THEN res.data[n].level =
                         call.dataset.rows[FirstMatch(call, i)][call.value]
                  ELSE ~call.drop_missing /\ res.data[n].level = NaN
          /\ EmittedRecs(res) =
               {i - 1 : i \in {j \in DOMAIN call.records :
                                 Matched(call, j) \/ ~call.drop_missing}}
          /\ Len(res.data) = Cardinality(EmittedRecs(res))
          /\ \A n \in DOMAIN res.data, m \in DOMAIN res.data :
               n < m => res.data[n].rec < res.data[m].rec

\* C8: with a dataset (even one without rows) and no `on` mapping, or a
\* value that is no dimension of the dataset, from_records fails with the
\* merge-configuration error, no record consumed and no overlay built.
C8_MergeConfigError ==
    (/\ recs.op = "from_records"
     /\ ~recs.call.dataset.isNone
     /\ (recs.call.on = {} \/ recs.call.value \notin DatasetDims))
    => /\ ~recs.res.ok
       /\ recs.res.err \in {"ValueError: must define attribute(s) to merge on",
                            "ValueError: value dimension not found"}
       /\ recs.res.consumed = 0
       /\ recs.res.data = <<>>

\* Key component d of record i can be resolved: from the matched row when d
\* is a dimension of the dataset, or from the record's attributes.
Resolved(call, i, d) ==
    \/ ~call.dataset.isNone /\ d \in DatasetDims /\ Matched(call, i)
    \/ call.records[i][d] # Absent

SomeUnresolved(call, res) ==
    \E n \in DOMAIN res.data, j \in DOMAIN call.index :
        ~Resolved(call, res.data[n].rec + 1, call.index[j])

\* With index dimensions: one key component per key dimension of the
\* overlay, and a leading Index exactly when some component of an emitted
\* record could not be resolved.
IndexedKeys(call, res) ==
    /\ \A n \in DOMAIN res.data : KeyLen(res.data[n].key) = Len(res.kdims)
    /\ IF SomeUnresolved(call, res)
       THEN /\ res.kdims = <<"Index">> \o call.index
            /\ \A n \in DOMAIN res.data : res.data[n].key.index = <<n - 1>>
       ELSE /\ res.kdims = call.index
            /\ \A n \in DOMAIN res.data : res.data[n].key.index = <<>>

\* C10 as stated: without index the k-th emitted Shape has key (k,), also
\* when drop_missing removed records; with index, as IndexedKeys says.
C10_SequentialKeys ==
    (recs.op = "from_records" /\ recs.res.ok)
    => IF recs.call.index = <<>>
       THEN /\ recs.res.kdims = <<"Index">>
            /\ \A n \in DOMAIN recs.res.data : recs.res.data[n].key = KeyTuple(<<n - 1>>, <<>>)
       ELSE IndexedKeys(recs.call, recs.res)

\* C10 amended: without index the Shape of the record at position i of the
\* stream has key (i,), which is (k,) for the k-th emitted Shape when no
\* record before it was dropped; with index, as IndexedKeys says.
C10_PositionKeys ==
    (recs.op = "from_records" /\ recs.res.ok)
    => IF recs.call.index = <<>>
       THEN /\ recs.res.kdims = <<"Index">>
            /\ \A n \in DOMAIN recs.res.data :
                 /\ recs.res.data[n].key = KeyTuple(<<recs.res.data[n].rec>>, <<>>)
                 /\ (\A i \in 0..recs.res.data[n].rec : i \in EmittedRecs(recs.res))
                      => recs.res.data[n].key = KeyTuple(<<n - 1>>, <<>>)
       ELSE IndexedKeys(recs.call, recs.res)

\* C10 witness: without index, the first record was dropped and the second
\* emitted under the key of its position.
C10_Witness ==
    /\ recs.op = "from_records"
    /\ recs.res.ok
    /\ recs.call.index = <<>>
    /\ recs.call.drop_missing
    /\ Len(recs.call.records) = 2
    /\ Len(recs.res.data) = 1
    /\ recs.res.data[1].rec = 1

\* C10 witness: with index, a key component was unresolved and the Index
\* was prepended.
C10_WitnessIndex ==
    /\ recs.op = "from_records"
    /\ recs.res.ok
    /\ recs.call.index # <<>>
    /\ Len(recs.res.data) = 2
    /\ SomeUnresolved(recs.call, recs.res)
    /\ recs.res.kdims[1] = "Index"

-----------------------------------------------------------------------------
(* Properties of the points specification *)

\* C11: project_points returns a new element with the rows of the input in
\* their order, the same column names, every column but the two
\* positional ones equal to the input's, the positional ones holding the
\* transformed x and y, and the target crs; the input element keeps its
\* columns and its crs.
C11_PointsFrame ==
    ppt.op = "project_points"
    => LET in == ppt.self
           out == ppt.res
           xdim == in.dims[1]
           ydim == in.dims[2]
           n == Len(in.cols[xdim])
       IN /\ out.store # in.store
          /\ out.dims = in.dims
          /\ DOMAIN out.cols = DOMAIN in.cols
          /\ \A d \in DOMAIN out.cols : Len(out.cols[d]) = n
          /\ \A d \in DOMAIN in.cols \ {xdim, ydim} : out.cols[d] = in.cols[d]
          /\ \A i \in 1..n :
               <<out.cols[xdim][i], out.cols[ydim][i]>> =
                 TransformPoint(ppt.proj, in.crs, in.cols[xdim][i], in.cols[ydim][i])
          /\ out.crs = ppt.proj
          /\ pts = in

\* C11 witness: two different points with a value column were projected
\* to another crs.
C11_Witness ==
    /\ ppt.op = "project_points"
    /\ ppt.proj # ppt.self.crs
    /\ ppt.self.dims = <<"x", "y", "v">>
    /\ Len(ppt.self.cols["x"]) = 2
    /\ ppt.self.cols["x"][1] # ppt.self.cols["x"][2]
    /\ ppt.self.cols["v"][1] # ppt.self.cols["v"][2]
    /\ ppt.res.cols["x"] # ppt.self.cols["x"]

====
